---- MODULE Spec2Model ----
(***************************************************************************)
(* Model of lake_graphics_framework: the runtime parameter validation      *)
(* (validate_type / validate_types and the four semantic validators of     *)
(* _variable_validation.py, over the type aliases of _type_hints.py), the  *)
(* MessageLogger class of message_logger/logger.py, and the Window methods *)
(* of window/window.py that validate, log and constrain the window.        *)
(*                                                                         *)
(* A Python value is a record [kind, n, nan, elems]: kind is the name of   *)
(* type(value); n is the number an int, bool or float holds, or the        *)
(* length of a str/bytes/set/range; nan marks float('nan'); elems are the items  *)
(* of a tuple.  An exception is a record [kind, msg]; a call's result also *)
(* carries the ordered list of checks the call performed (trace).          *)
(*                                                                         *)
(* Spec runs one call of the validation or of a Window method from each    *)
(* input; LoggerSpec runs sequences of calls on the MessageLogger class.   *)
(***************************************************************************)
EXTENDS Integers, Sequences, FiniteSets, TLC

VARIABLES pc, fn, args, result, calls, logger, window

vars == <<pc, fn, args, result, calls, logger, window>>

(* ------------------------------------------------------------------ *)
(* Bounds of the model                                                  *)
(* ------------------------------------------------------------------ *)
MaxAlts == 2
MaxBatch == 3
MaxInt == 2
MaxRange == 5
MaxCalls == 3

(* ------------------------------------------------------------------ *)
(* Program constants                                                    *)
(* ------------------------------------------------------------------ *)
CoordinateLen == 2
SizeLen == 2
ColorLen == 4

(* ------------------------------------------------------------------ *)
(* Type descriptors (_type_hints.py).  A descriptor is [id, args]:      *)
(* args is empty except for a union, whose args are its alternatives.   *)
(* Identity of descriptor objects is equality of ids, so PositiveInt,   *)
(* being the very object int, has int's id.                             *)
(* ------------------------------------------------------------------ *)
Leaf(id) == [id |-> id, args |-> <<>>]

int == Leaf("int")
bool == Leaf("bool")
float == Leaf("float")
str == Leaf("str")
tuple == Leaf("tuple")
NoneType == Leaf("NoneType")
ListOfInt == Leaf("list[int]")

PositiveInt == int
Coordinate == Leaf("Coordinate")
Size == Leaf("Size")
ColorRGBA == Leaf("ColorRGBA")

Union(alts) == [id |-> "Union", args |-> alts]

get_origin(expected_type) ==
    CASE expected_type.id = "Union" -> "Union"
      [] expected_type.id \in {"Coordinate", "Size", "ColorRGBA", "list[int]"} ->
            IF expected_type.id = "list[int]" THEN "list" ELSE "tuple"
      [] OTHER -> "None"

get_args(expected_type) == expected_type.args

(* The classes a descriptor can be handed to isinstance() as. *)
Classes == {"int", "bool", "float", "str", "tuple", "NoneType"}

(* ------------------------------------------------------------------ *)
(* Python values                                                        *)
(* ------------------------------------------------------------------ *)
Val(kind, n, nan, elems) == [kind |-> kind, n |-> n, nan |-> nan, elems |-> elems]

None == Val("NoneType", 0, FALSE, <<>>)
IntVal(n) == Val("int", n, FALSE, <<>>)
BoolVal(n) == Val("bool", n, FALSE, <<>>)
FloatVal(n) == Val("float", n, FALSE, <<>>)
NaN == Val("float", 0, TRUE, <<>>)
StrVal(len) == Val("str", len, FALSE, <<>>)
BytesVal(len) == Val("bytes", len, FALSE, <<>>)
SetVal(len) == Val("set", len, FALSE, <<>>)
TupleVal(elems) == Val("tuple", 0, FALSE, elems)
RangeVal(len) == Val("range", len, FALSE, <<>>)
NoValue == Val("", 0, FALSE, <<>>)

(* Method resolution: the classes and ABCs a value is an instance of. *)
Bases(kind) ==
    CASE kind = "int" -> {"int", "Real"}
      [] kind = "bool" -> {"bool", "int", "Real"}
      [] kind = "float" -> {"float", "Real"}
      [] kind = "str" -> {"str", "Sequence", "AnyString"}
      [] kind = "bytes" -> {"bytes", "Sequence", "AnyString"}
      [] kind = "tuple" -> {"tuple", "Sequence"}
      [] kind = "range" -> {"range", "Sequence"}
      [] kind = "NoneType" -> {"NoneType"}
      [] OTHER -> {kind}

isinstance(var, cls) == cls \in Bases(var.kind)

len(var) == IF var.kind = "tuple" THEN Len(var.elems) ELSE var.n

(* var[i], with Python's indices from 0; range(n)[i] is the int i *)
Item(var, i) == IF var.kind = "range" THEN IntVal(i) ELSE var.elems[i + 1]

(* Python's < and > on numbers: every comparison with NaN is False. *)
Lt(a, k) == ~a.nan /\ a.n < k
Gt(a, k) == ~a.nan /\ a.n > k

Min(S) == CHOOSE x \in S : \A y \in S : x <= y

(* ------------------------------------------------------------------ *)
(* Outcomes                                                             *)
(* ------------------------------------------------------------------ *)
Accepted == "None"
TypeMismatch == "TypeError"
ValueViolation == "ValueError"

(* A message is the f-string that built it (fmt) and what it interpolates. *)
Msg(fmt, name, index, expected, got_type, got_value, failures) ==
    [fmt |-> fmt, name |-> name, index |-> index, expected |-> expected,
     got_type |-> got_type, got_value |-> got_value, failures |-> failures]

NoMsg == Msg("", "", -1, <<>>, "", NoValue, <<>>)

Ev(op, arg, idx) == [op |-> op, arg |-> arg, idx |-> idx]

Return(trace) == [kind |-> Accepted, msg |-> NoMsg, trace |-> trace]
Raise(kind, msg, trace) == [kind |-> kind, msg |-> msg, trace |-> trace]

NoResult == [kind |-> "", msg |-> NoMsg, trace |-> <<>>]

(* The checks "for i in range(k): <op>(var[i])" performs before leaving at i = last *)
LoopTrace(op, last) == [j \in 1..(last + 1) |-> Ev(op, "", j - 1)]

(* ------------------------------------------------------------------ *)
(* Semantic validators                                                  *)
(* ------------------------------------------------------------------ *)
(* Mutant of _validate_positiveint: "if var <= 0" for "if var < 0" *)
_validate_positiveint_strict(name, var) ==
    IF ~isinstance(var, "int")
    THEN Raise(TypeMismatch,
               Msg("Invalid type for {name}. Expected {int}, got {type(var)}.",
                   name, -1, <<"int">>, var.kind, NoValue, <<>>),
               <<Ev("isinstance", "int", -1)>>)
    ELSE IF Lt(var, 1)
    THEN Raise(ValueViolation,
               Msg("Invalid value for {name}. PositiveInt numbers must be non-negative.",
                   name, -1, <<>>, "", NoValue, <<>>),
               <<Ev("isinstance", "int", -1), Ev("range", "", -1)>>)
    ELSE Return(<<Ev("isinstance", "int", -1), Ev("range", "", -1)>>)

_validate_positiveint(name, var) ==
    IF ~isinstance(var, "int")
    THEN Raise(TypeMismatch,
               Msg("Invalid type for {name}. Expected {int}, got {type(var)}.",
                   name, -1, <<"int">>, var.kind, NoValue, <<>>),
               <<Ev("isinstance", "int", -1)>>)
    ELSE IF Lt(var, 0)
    THEN Raise(ValueViolation,
               Msg("Invalid value for {name}. PositiveInt numbers must be non-negative.",
                   name, -1, <<>>, "", NoValue, <<>>),
               <<Ev("isinstance", "int", -1), Ev("range", "", -1)>>)
    ELSE Return(<<Ev("isinstance", "int", -1), Ev("range", "", -1)>>)

(* In the three sequence validators, the first index a "for i in ..." loop *)
(* raises at is the least index whose element fails the loop's test.      *)
(* Mutant of _validate_coordinate: "if len(var) < 2" for "if len(var) != 2", *)
(* the two items looked at being the first two                             *)
_validate_coordinate_atleast(name, var) ==
    LET t1 == <<Ev("isinstance", "Sequence", -1)>>
        t2 == Append(t1, Ev("len", "", -1))
    IN  IF ~isinstance(var, "Sequence") \/ isinstance(var, "AnyString")
        THEN Raise(TypeMismatch,
                   Msg("Invalid type for Coordinate '{name}'. Expected {Sequence}, got {type(var)}.",
                       name, -1, <<"Sequence">>, var.kind, NoValue, <<>>),
                   t1)
        ELSE IF len(var) < CoordinateLen
        THEN Raise(TypeMismatch,
                   Msg("Invalid length for Coordinate '{name}'. Coordinate must be two numbers.",
                       name, -1, <<>>, "", NoValue, <<>>),
                   t2)
        ELSE LET notReal == {i \in 0..(CoordinateLen - 1) : ~isinstance(Item(var, i), "Real")}
             IN  IF notReal # {}
                 THEN LET i == Min(notReal)
                      IN  Raise(TypeMismatch,
                                Msg("Invalid type for Coordinate[{i}] '{name}'. Expected {Real}, got {type(var[i])}.",
                                    name, i, <<"Real">>, Item(var, i).kind, NoValue, <<>>),
                                t2 \o LoopTrace("isinstance_Real", i))
                 ELSE Return(t2 \o LoopTrace("isinstance_Real", CoordinateLen - 1))

_validate_coordinate(name, var) ==
    LET t1 == <<Ev("isinstance", "Sequence", -1)>>
        t2 == Append(t1, Ev("len", "", -1))
    IN  IF ~isinstance(var, "Sequence") \/ isinstance(var, "AnyString")
        THEN Raise(TypeMismatch,
                   Msg("Invalid type for Coordinate '{name}'. Expected {Sequence}, got {type(var)}.",
                       name, -1, <<"Sequence">>, var.kind, NoValue, <<>>),
                   t1)
        ELSE IF len(var) # CoordinateLen
        THEN Raise(TypeMismatch,
                   Msg("Invalid length for Coordinate '{name}'. Coordinate must be two numbers.",
                       name, -1, <<>>, "", NoValue, <<>>),
                   t2)
        ELSE LET notReal == {i \in 0..(CoordinateLen - 1) : ~isinstance(Item(var, i), "Real")}
                 t3 == t2 \o LoopTrace("isinstance_Real", CoordinateLen - 1)
             IN  IF notReal # {}
                 THEN LET i == Min(notReal)
                      IN  Raise(TypeMismatch,
                                Msg("Invalid type for Coordinate[{i}] '{name}'. Expected {Real}, got {type(var[i])}.",
                                    name, i, <<"Real">>, Item(var, i).kind, NoValue, <<>>),
                                t2 \o LoopTrace("isinstance_Real", i))
                 ELSE Return(t3)

(* Mutant of _validate_size: one loop that checks the type and then the    *)
(* sign of each element in turn, for the two loops                         *)
_validate_size_interleaved(name, var) ==
    LET t1 == <<Ev("isinstance", "Sequence", -1)>>
        t2 == Append(t1, Ev("len", "", -1))
        both(last) == [j \in 1..(2 * (last + 1)) |->
                          IF j % 2 = 1 THEN Ev("isinstance_Real", "", (j - 1) \div 2)
                          ELSE Ev("range", "", (j - 1) \div 2)]
    IN  IF ~isinstance(var, "Sequence") \/ isinstance(var, "AnyString")
        THEN Raise(TypeMismatch,
                   Msg("Invalid type for Size '{name}'. Expected {Sequence}, got {type(var)}.",
                       name, -1, <<"Sequence">>, var.kind, NoValue, <<>>),
                   t1)
        ELSE IF len(var) # SizeLen
        THEN Raise(TypeMismatch,
                   Msg("Invalid length for Size '{name}'. Size must be two numbers.",
                       name, -1, <<>>, "", NoValue, <<>>),
                   t2)
        ELSE LET fails == {i \in 0..(SizeLen - 1) :
                              ~isinstance(Item(var, i), "Real") \/ Lt(Item(var, i), 0)}
             IN  IF fails = {} THEN Return(t2 \o both(SizeLen - 1))
                 ELSE LET i == Min(fails)
                      IN  IF ~isinstance(Item(var, i), "Real")
                          THEN Raise(TypeMismatch,
                                     Msg("Invalid type for Size[{i}] '{name}'. Expected {Real}, got {type(var[i])}.",
                                         name, i, <<"Real">>, Item(var, i).kind, NoValue, <<>>),
                                     SubSeq(t2 \o both(i), 1, Len(t2) + 2 * i + 1))
                          ELSE Raise(ValueViolation,
                                     Msg("Invalid value for Size[{i}] '{name}'. All size numbers must be non-negative, got {var}.",
                                         name, i, <<>>, "", var, <<>>),
                                     t2 \o both(i))

_validate_size(name, var) ==
    LET t1 == <<Ev("isinstance", "Sequence", -1)>>
        t2 == Append(t1, Ev("len", "", -1))
    IN  IF ~isinstance(var, "Sequence") \/ isinstance(var, "AnyString")
        THEN Raise(TypeMismatch,
                   Msg("Invalid type for Size '{name}'. Expected {Sequence}, got {type(var)}.",
                       name, -1, <<"Sequence">>, var.kind, NoValue, <<>>),
                   t1)
        ELSE IF len(var) # SizeLen
        THEN Raise(TypeMismatch,
                   Msg("Invalid length for Size '{name}'. Size must be two numbers.",
                       name, -1, <<>>, "", NoValue, <<>>),
                   t2)
        ELSE LET notReal == {i \in 0..(SizeLen - 1) : ~isinstance(Item(var, i), "Real")}
                 t3 == t2 \o LoopTrace("isinstance_Real", SizeLen - 1)
             IN  IF notReal # {}
                 THEN LET i == Min(notReal)
                      IN  Raise(TypeMismatch,
                                Msg("Invalid type for Size[{i}] '{name}'. Expected {Real}, got {type(var[i])}.",
                                    name, i, <<"Real">>, Item(var, i).kind, NoValue, <<>>),
                                t2 \o LoopTrace("isinstance_Real", i))
                 ELSE LET bad == {i \in 0..(SizeLen - 1) : Lt(Item(var, i), 0)}
                      IN  IF bad # {}
                          THEN LET i == Min(bad)
                               IN  Raise(ValueViolation,
                                         Msg("Invalid value for Size[{i}] '{name}'. All size numbers must be non-negative, got {var}.",
                                             name, i, <<>>, "", var, <<>>),
                                         t3 \o LoopTrace("range", i))
                          ELSE Return(t3 \o LoopTrace("range", SizeLen - 1))

_validate_color_rgba(name, var) ==
    LET t1 == <<Ev("isinstance", "Sequence", -1)>>
        t2 == Append(t1, Ev("len", "", -1))
    IN  IF ~isinstance(var, "Sequence") \/ isinstance(var, "AnyString")
        THEN Raise(TypeMismatch,
                   Msg("Invalid type for the Color '{name}'. Expected {Sequence}, got {type(var)}.",
                       name, -1, <<"Sequence">>, var.kind, NoValue, <<>>),
                   t1)
        ELSE IF len(var) # ColorLen
        THEN Raise(TypeMismatch,
                   Msg("Invalid length for the Color '{name}'. Color must be contain four channels: Red, Green, Blue, Alpha.",
                       name, -1, <<>>, "", NoValue, <<>>),
                   t2)
        ELSE LET notReal == {i \in 0..(ColorLen - 1) : ~isinstance(Item(var, i), "Real")}
                 t3 == t2 \o LoopTrace("isinstance_Real", ColorLen - 1)
             IN  IF notReal # {}
                 THEN LET i == Min(notReal)
                      IN  Raise(TypeMismatch,
                                Msg("Invalid type for the Color[{i}] '{name}'. Expected {Real}, got {type(var[i])}.",
                                    name, i, <<"Real">>, Item(var, i).kind, NoValue, <<>>),
                                t2 \o LoopTrace("isinstance_Real", i))
                 ELSE LET bad == {i \in 0..(ColorLen - 1) : Lt(Item(var, i), 0) \/ Gt(Item(var, i), 1)}
                      IN  IF bad # {}
                          THEN LET i == Min(bad)
                               IN  Raise(ValueViolation,
                                         Msg("Invalid value for the Color[{i}] '{name}'. Color numbers must be between 0 and 1 inclusive, but the value was {var[i]}.",
                                             name, i, <<>>, "", Item(var, i), <<>>),
                                         t3 \o LoopTrace("range", i))
                          ELSE Return(t3 \o LoopTrace("range", ColorLen - 1))

(* ------------------------------------------------------------------ *)
(* validate_type                                                        *)
(* ------------------------------------------------------------------ *)
RECURSIVE validate_type(_, _, _)
RECURSIVE UnionLoop(_, _, _, _, _, _)

Ids(possible_types) == [k \in 1..Len(possible_types) |-> possible_types[k].id]

(* Mutant of UnionNone: "if type(None) in possible_types" for "if not ... in" *)
UnionNone_inverted(name, var, expected_type, possible_types) ==
    IF \E k \in 1..Len(possible_types) : possible_types[k] = NoneType
    THEN Raise(TypeMismatch,
               Msg("Invalid type for {name}, can't be None. Expected {expected_type}, got {type(var)}.",
                   name, -1, Ids(possible_types), var.kind, NoValue, <<>>),
               <<Ev("is_None", "", -1)>>)
    ELSE Return(<<Ev("is_None", "", -1)>>)

(* "if var is None" of a union: nothing else of the union is looked at *)
UnionNone(name, var, expected_type, possible_types) ==
    IF ~(\E k \in 1..Len(possible_types) : possible_types[k] = NoneType)
    THEN Raise(TypeMismatch,
               Msg("Invalid type for {name}, can't be None. Expected {expected_type}, got {type(var)}.",
                   name, -1, Ids(possible_types), var.kind, NoValue, <<>>),
               <<Ev("is_None", "", -1)>>)
    ELSE Return(<<Ev("is_None", "", -1)>>)

(* Mutant of UnionNoMatch: the recorded value errors are not looked at *)
UnionNoMatch_typeonly(name, var, possible_types, value_errors, trace) ==
    Raise(TypeMismatch,
          Msg("Invalid type for {name}. Expected one of {possible_types}, got {type(var)}.",
              name, -1, Ids(possible_types), var.kind, NoValue, <<>>),
          trace)

(* "Finished loop, nothing matched" *)
UnionNoMatch(name, var, possible_types, value_errors, trace) ==
    IF Len(value_errors) = 0
    THEN Raise(TypeMismatch,
               Msg("Invalid type for {name}. Expected one of {possible_types}, got {type(var)}.",
                   name, -1, Ids(possible_types), var.kind, NoValue, <<>>),
               trace)
    ELSE Raise(ValueViolation,
               Msg("{name} of type {type(var)} in {possible_types}, no type conformed to expected value. Validation value failures: - {formatted_errors}",
                   name, -1, Ids(possible_types), var.kind, NoValue, value_errors),
               trace)

(* Mutant of UnionLoop: "except ValueError: raise" for recording the error *)
UnionLoop_raise(name, var, possible_types, k, value_errors, trace) ==
    IF k > Len(possible_types)
    THEN UnionNoMatch(name, var, possible_types, value_errors, trace)
    ELSE LET t == possible_types[k]
         IN  IF t = NoneType
             THEN UnionLoop(name, var, possible_types, k + 1, value_errors, trace)
             ELSE LET r == validate_type(name, var, t)
                      tr == (trace \o <<Ev("validate_type", t.id, k - 1)>>) \o r.trace
                  IN  CASE r.kind = Accepted -> Return(tr)
                        [] r.kind = TypeMismatch ->
                              UnionLoop(name, var, possible_types, k + 1, value_errors, tr)
                        [] r.kind = ValueViolation -> Raise(r.kind, r.msg, tr)

(* "for t in possible_types", from the k-th alternative on *)
UnionLoop(name, var, possible_types, k, value_errors, trace) ==
    IF k > Len(possible_types)
    THEN UnionNoMatch(name, var, possible_types, value_errors, trace)
    ELSE LET t == possible_types[k]
         IN  IF t = NoneType
             THEN UnionLoop(name, var, possible_types, k + 1, value_errors, trace)
             ELSE LET r == validate_type(name, var, t)
                      tr == (trace \o <<Ev("validate_type", t.id, k - 1)>>) \o r.trace
                  IN  CASE r.kind = Accepted -> Return(tr)
                        [] r.kind = TypeMismatch ->
                              UnionLoop(name, var, possible_types, k + 1, value_errors, tr)
                        [] r.kind = ValueViolation ->
                              UnionLoop(name, var, possible_types, k + 1,
                                        Append(value_errors, r.msg), tr)

(* "if not isinstance(var, expected_type)": isinstance itself raises   *)
(* TypeError when its second argument is no class.                      *)
PlainCheck(name, var, expected_type) ==
    IF expected_type.id \notin Classes
    THEN Raise(TypeMismatch,
               Msg("isinstance() argument 2 cannot be a parameterized generic",
                   "", -1, <<>>, "", NoValue, <<>>),
               <<Ev("isinstance", expected_type.id, -1)>>)
    ELSE IF ~isinstance(var, expected_type.id)
    THEN Raise(TypeMismatch,
               Msg("Invalid type for {name}. Expected {expected_type}, got {type(var)}.",
                   name, -1, <<expected_type.id>>, var.kind, NoValue, <<>>),
               <<Ev("isinstance", expected_type.id, -1)>>)
    ELSE Return(<<Ev("isinstance", expected_type.id, -1)>>)

validate_type(name, var, expected_type) ==
    LET origin == get_origin(expected_type)
    IN  IF origin = "Union"
        THEN LET possible_types == get_args(expected_type)
             IN  IF var = None
                 THEN UnionNone(name, var, expected_type, possible_types)
                 ELSE UnionLoop(name, var, possible_types, 1, <<>>, <<>>)
        ELSE IF expected_type = PositiveInt THEN _validate_positiveint(name, var)
        ELSE IF expected_type = Coordinate THEN _validate_coordinate(name, var)
        ELSE IF expected_type = Size THEN _validate_size(name, var)
        ELSE IF expected_type = ColorRGBA THEN _validate_color_rgba(name, var)
        ELSE PlainCheck(name, var, expected_type)

(* ------------------------------------------------------------------ *)
(* validate_types                                                       *)
(* ------------------------------------------------------------------ *)
(* Mutant of BatchLoop: every request is validated and the last error raised *)
BatchLoop_all(expected_types, k, trace) ==
    LET rest == k..Len(expected_types)
        res(j) == validate_type(expected_types[j].name, expected_types[j].var,
                                expected_types[j].expected_type)
        bad == {j \in rest : res(j).kind # Accepted}
        tr == trace \o [j \in 1..(Len(expected_types) - k + 1) |->
                           Ev("validate_type", expected_types[j + k - 1].name, j + k - 2)]
    IN  IF bad = {} THEN Return(tr)
        ELSE LET last == CHOOSE j \in bad : \A i \in bad : i <= j
             IN  Raise(res(last).kind, res(last).msg, tr)

RECURSIVE BatchLoop(_, _, _)

(* "for expected_type in expected_types", from the k-th request on; trace *)
(* lists the indices of the requests handed to validate_type.            *)
BatchLoop(expected_types, k, trace) ==
    IF k > Len(expected_types)
    THEN Return(trace)
    ELSE LET e == expected_types[k]
             r == validate_type(e.name, e.var, e.expected_type)
             tr == Append(trace, Ev("validate_type", e.name, k - 1))
         IN  IF r.kind # Accepted
             THEN Raise(r.kind, r.msg, tr)
             ELSE BatchLoop(expected_types, k + 1, tr)

validate_types(expected_types) == BatchLoop(expected_types, 1, <<>>)

(* ------------------------------------------------------------------ *)
(* Inputs                                                               *)
(* ------------------------------------------------------------------ *)
(* Integers around the two numbers the code compares with, 0 and 1 *)
ElemInts == (-1)..MaxInt

(* What a sequence may hold: numbers, NaN, and something that is no number *)
Elements == {IntVal(n) : n \in ElemInts} \cup {NaN, StrVal(1)}

SeqsOf(S, n) == UNION {[1..k -> S] : k \in 0..n}

Scalars ==
    {None, NaN} \cup {IntVal(n) : n \in ElemInts} \cup {BoolVal(0), BoolVal(1)}
    \cup {FloatVal(n) : n \in ElemInts}
    \cup {StrVal(k) : k \in {0, 2, 4}} \cup {BytesVal(2), SetVal(2)}

(* Tuples of every length up to the longest the code asks for, and range  *)
(* objects for longer sequences.                                         *)
Values ==
    Scalars \cup {TupleVal(e) : e \in SeqsOf(Elements, ColorLen)}
            \cup {RangeVal(k) : k \in 0..MaxRange}

LeafTypes == {int, bool, float, str, tuple, NoneType, ListOfInt,
              Coordinate, Size, ColorRGBA}

(* What a union may list.  Coordinate and Size are equal as objects      *)
(* (both tuple[int, int]), so a union never holds both.                  *)
UnionMembers == {int, str, tuple, Size, ColorRGBA, ListOfInt, NoneType}

Injective(f) == \A a, b \in DOMAIN f : a # b => f[a] # f[b]

Unions == {Union(alts) : alts \in {a \in SeqsOf(UnionMembers, MaxAlts) :
                                        Len(a) >= 2 /\ Injective(a)}}

Types == LeafTypes \cup Unions

(* Union[...] and "|" as a caller writes them: they keep the first of    *)
(* alternatives that are equal, and a union of one alternative is that   *)
(* alternative.  Coordinate and Size are both tuple[int, int]: equal, and *)
(* not the same object.                                                  *)
SameType(a, b) == a = b \/ {a, b} = {Coordinate, Size}
typing_Union(declared) ==
    LET IsFirst(i) == \A j \in 1..(i - 1) : ~SameType(declared[j], declared[i])
        firsts == {i \in DOMAIN declared : IsFirst(i)}
        RECURSIVE Kept(_)
        Kept(i) == IF i > Len(declared) THEN <<>>
                   ELSE IF i \in firsts THEN <<declared[i]>> \o Kept(i + 1)
                   ELSE Kept(i + 1)
    IN  IF Len(Kept(1)) = 1 THEN Kept(1)[1] ELSE Union(Kept(1))

(* The alternatives a caller may write, in every order *)
DeclaredMembers == {Coordinate, Size, str, NoneType}
Declarations == {d \in SeqsOf(DeclaredMembers, MaxAlts) : Len(d) >= 2 /\ Injective(d)}

Names == {"v"}

Request(name, var, expected_type) ==
    [name |-> name, var |-> var, expected_type |-> expected_type]

Requests == {Request(n, v, t) : n \in Names, v \in Values, t \in Types}

DeclaredRequests ==
    {[name |-> n, var |-> v, declared |-> d] :
        n \in Names, v \in Values, d \in Declarations}

(* The requests of tests/test_variable_validation.py and of Window.__init__, *)
(* each with a value that passes and one that does not.                     *)
BatchRequests ==
    {Request("size", TupleVal(<<IntVal(0), IntVal(0)>>), Size),
     Request("size", TupleVal(<<IntVal(0), IntVal(-20)>>), Size),
     Request("caption", StrVal(5), str),
     Request("caption", IntVal(5), str),
     Request("max_fps", IntVal(100), int),
     Request("max_fps", None, Union(<<PositiveInt, NoneType>>)),
     Request("max_fps", IntVal(-1), Union(<<PositiveInt, NoneType>>)),
     Request("print_gl_errors", BoolVal(1), bool)}

Batches == SeqsOf(BatchRequests, MaxBatch)

(* ------------------------------------------------------------------ *)
(* MessageLogger (message_logger/logger.py)                             *)
(* ------------------------------------------------------------------ *)
(* _VERBOSITY_PRIORITYS *)
NONE == 0
LOG_ONLY == 1
ERROR == 2
WARNING == 3
CRUCIAL == 4
INFO == 5
DEV == 6
_VERBOSITY_PRIORITYS ==
    [k \in {"NONE", "LOG_ONLY", "ERROR", "WARNING", "CRUCIAL", "INFO", "DEV"} |->
        CASE k = "NONE" -> NONE
          [] k = "LOG_ONLY" -> LOG_ONLY
          [] k = "ERROR" -> ERROR
          [] k = "WARNING" -> WARNING
          [] k = "CRUCIAL" -> CRUCIAL
          [] k = "INFO" -> INFO
          [] k = "DEV" -> DEV]

(* _VERBOSITY_KEYS: the names in the order of the dictionary, from index 0 *)
_VERBOSITY_KEYS == <<"NONE", "LOG_ONLY", "ERROR", "WARNING", "CRUCIAL", "INFO", "DEV">>
KeyAt(priority) == _VERBOSITY_KEYS[priority + 1]

(* "_verbosity_priority = -1": verbose unset *)
Unset == -1

(* A string as the sequence of its characters; the spelling of each key *)
Spelling ==
    [k \in DOMAIN _VERBOSITY_PRIORITYS |->
        CASE k = "NONE" -> <<"N", "O", "N", "E">>
          [] k = "LOG_ONLY" -> <<"L", "O", "G", "_", "O", "N", "L", "Y">>
          [] k = "ERROR" -> <<"E", "R", "R", "O", "R">>
          [] k = "WARNING" -> <<"W", "A", "R", "N", "I", "N", "G">>
          [] k = "CRUCIAL" -> <<"C", "R", "U", "C", "I", "A", "L">>
          [] k = "INFO" -> <<"I", "N", "F", "O">>
          [] k = "DEV" -> <<"D", "E", "V">>]

(* str.replace("\n", "") and str.replace("\r", "") *)
NotNewline(c) == c # "\n"
NotReturn(c) == c # "\r"

(* str.strip(): whitespace off both ends, none taken from the middle *)
Whitespace == {" ", "\t", "\n", "\r"}
strip(s) ==
    LET solid == {i \in DOMAIN s : s[i] \notin Whitespace}
    IN  IF solid = {} THEN <<>>
        ELSE SubSeq(s, Min(solid), CHOOSE i \in solid : \A j \in solid : j <= i)

(* str.upper() on the letters the inputs use *)
Lower == <<"a", "c", "d", "e", "f", "g", "i", "l", "n", "o", "r", "u", "v", "w", "y">>
Upper == <<"A", "C", "D", "E", "F", "G", "I", "L", "N", "O", "R", "U", "V", "W", "Y">>
upper(s) ==
    [i \in DOMAIN s |->
        IF \E k \in DOMAIN Lower : Lower[k] = s[i]
        THEN Upper[CHOOSE k \in DOMAIN Lower : Lower[k] = s[i]]
        ELSE s[i]]

(* set_verbose_type: str(verbosity).replace("\n", "").replace("\r", "").strip().upper() *)
Normalise(verbosity) == upper(strip(SelectSeq(SelectSeq(verbosity, NotNewline), NotReturn)))

(* "cls._verbosity in cls._VERBOSITY_PRIORITYS" and the key it is *)
IsKey(s) == \E k \in DOMAIN Spelling : Spelling[k] = s
KeyOf(s) == CHOOSE k \in DOMAIN Spelling : Spelling[k] = s

(* A line of the log file: the setup header, or a formatted message *)
Header(level) == [prefix |-> "Logfile created with verbose level", message |-> <<level>>]
Line(prefix, message) == [prefix |-> prefix, message |-> message]
IsHeader(line) == line.prefix = "Logfile created with verbose level"
IsEntry(line) == ~IsHeader(line)

(* The class attributes, the logs/ folder and the log file, and what the  *)
(* call in progress has printed to the terminal.                         *)
Unloaded(folder) ==
    [verbosity_priority |-> Unset,
     verbosity |-> <<>>,
     logs |-> <<>>,
     folder |-> folder,
     file |-> [exists |-> FALSE, lines |-> <<>>],
     stdout |-> <<>>]

(* What a call leaves: the logger afterwards and the exception, if any *)
NoException == "None"
Left(lg, raised) == [logger |-> lg, raised |-> raised]

(* check_init_completed *)
check_init_completed(lg) == lg.verbosity_priority # Unset

(* _ERROR_IF_NOT_INITIATED *)
_ERROR_IF_NOT_INITIATED == TRUE

(* _append_to_log_file: open(path, "a") creates the file in an existing   *)
(* folder and fails without the folder.                                   *)
_append_to_log_file(lg, line) ==
    IF ~lg.file.exists /\ ~lg.folder
    THEN Left(lg, "FileNotFoundError")
    ELSE Left([lg EXCEPT !.file = [exists |-> TRUE, lines |-> Append(@.lines, line)]],
              NoException)

(* Mutant of _log: the terminal filter applied to the file as well *)
_log_filtered(lg, verbose_type, message) ==
    IF _ERROR_IF_NOT_INITIATED /\ ~check_init_completed(lg)
    THEN Left(lg, "RuntimeError")
    ELSE IF ~check_init_completed(lg)
    THEN Left(lg, NoException)
    ELSE IF lg.verbosity_priority < _VERBOSITY_PRIORITYS[verbose_type]
    THEN Left(lg, NoException)
    ELSE LET line == Line(verbose_type, message)
             kept == [lg EXCEPT !.logs = Append(@, message)]
             written == _append_to_log_file(kept, line)
         IN  IF written.raised # NoException
             THEN written
             ELSE Left([written.logger EXCEPT !.stdout = Append(@, line)], NoException)

(* _log, with _check_init_completed and _format_message: the formatted    *)
(* message is the prefix and the text (the time of day is left out).      *)
_log(lg, verbose_type, message) ==
    IF _ERROR_IF_NOT_INITIATED /\ ~check_init_completed(lg)
    THEN Left(lg, "RuntimeError")
    ELSE IF ~check_init_completed(lg)
    THEN Left(lg, NoException)
    ELSE IF lg.verbosity_priority < _VERBOSITY_PRIORITYS["LOG_ONLY"]
    THEN Left(lg, NoException)
    ELSE LET line == Line(verbose_type, message)
             kept == [lg EXCEPT !.logs = Append(@, message)]
             written == _append_to_log_file(kept, line)
         IN  IF written.raised # NoException
             THEN written
             ELSE IF lg.verbosity_priority < _VERBOSITY_PRIORITYS[verbose_type]
             THEN written
             ELSE Left([written.logger EXCEPT !.stdout = Append(@, line)], NoException)

(* Mutant of error: the exception is raised before the message is logged *)
error_first(lg, message, exception) ==
    IF exception # NoException
    THEN Left(lg, exception)
    ELSE _log(lg, "ERROR", message)

(* error: "cls._log(...)", then "if exception is not None: raise exception" *)
error(lg, message, exception) ==
    LET logged == _log(lg, "ERROR", message)
    IN  IF logged.raised # NoException
        THEN logged
        ELSE IF exception # NoException
        THEN Left(logged.logger, exception)
        ELSE logged

warn(lg, message) == _log(lg, "WARNING", message)
crucial(lg, message) == _log(lg, "CRUCIAL", message)
info(lg, message) == _log(lg, "INFO", message)
dev(lg, message) == _log(lg, "DEV", message)

(* The notice set_verbose_type logs when the level was set before *)
Notice(prev_verbose_type, verbosity) ==
    <<"MessageLogger verbose type updated from {prev_verbose_type} to {cls._verbosity}",
      prev_verbose_type, verbosity>>
IsNotice(message) ==
    message[1] = "MessageLogger verbose type updated from {prev_verbose_type} to {cls._verbosity}"

(* Mutant of set_verbose_type: an unknown name leaves the level unset *)
set_verbose_type_reset(lg, verbosity) ==
    LET named == [lg EXCEPT !.verbosity = Normalise(verbosity)]
    IN  IF ~IsKey(named.verbosity)
        THEN Left([named EXCEPT !.verbosity_priority = Unset], "ValueError")
        ELSE LET prev_verbosity_priority == lg.verbosity_priority
                 set == [named EXCEPT !.verbosity_priority =
                                          _VERBOSITY_PRIORITYS[KeyOf(named.verbosity)]]
             IN  IF prev_verbosity_priority # Unset
                 THEN info(set, Notice(KeyAt(prev_verbosity_priority), KeyOf(named.verbosity)))
                 ELSE Left(set, NoException)

(* set_verbose_type *)
set_verbose_type(lg, verbosity) ==
    LET named == [lg EXCEPT !.verbosity = Normalise(verbosity)]
    IN  IF ~IsKey(named.verbosity)
        THEN Left(named, "ValueError")
        ELSE LET prev_verbosity_priority == lg.verbosity_priority
                 set == [named EXCEPT !.verbosity_priority =
                                          _VERBOSITY_PRIORITYS[KeyOf(named.verbosity)]]
             IN  IF prev_verbosity_priority # Unset
                 THEN info(set, Notice(KeyAt(prev_verbosity_priority), KeyOf(named.verbosity)))
                 ELSE Left(set, NoException)

(* _setup_log_file: os.makedirs(exist_ok=True), then open(path, "w")      *)
_setup_log_file(lg, setup_message) ==
    Left([lg EXCEPT !.folder = TRUE,
                    !.file = [exists |-> TRUE, lines |-> <<setup_message>>]],
         NoException)

(* init *)
init(lg, verbosity) ==
    LET set == set_verbose_type(lg, verbosity)
    IN  IF set.raised # NoException
        THEN set
        ELSE LET cleared == [set.logger EXCEPT !.logs = <<>>]
             IN  _setup_log_file(cleared, Header(KeyAt(cleared.verbosity_priority)))

(* ------------------------------------------------------------------ *)
(* Window (window/window.py); "log" is the MessageLogger                *)
(* ------------------------------------------------------------------ *)
(* The fields of a Window the modelled methods use, and the swap        *)
(* interval glfw was last given ("unset" before any).                   *)
WindowOf(fullscreen, resizable, borderless, size, display_size) ==
    [fullscreen |-> fullscreen,
     resizable |-> resizable,
     borderless |-> borderless,
     size |-> size,
     display_size |-> display_size,
     swap_interval |-> "unset"]

(* What a method leaves: the window, the logger, the exception if any *)
Ran(w, lg, raised) == [window |-> w, logger |-> lg, raised |-> raised]

(* Mutant of _enforce_fullscreen_constraints: the size is left alone *)
_enforce_fullscreen_constraints_flags(w, lg) ==
    LET todo == dev(lg, <<"TODO: Verify resizable & borderless functionality.">>)
    IN  IF todo.raised # NoException THEN Ran(w, todo.logger, todo.raised)
        ELSE IF ~w.fullscreen THEN Ran(w, todo.logger, NoException)
        ELSE LET w1 == [w EXCEPT !.resizable = FALSE, !.borderless = FALSE]
             IN  Ran(w1, todo.logger, NoException)

(* _enforce_fullscreen_constraints *)
_enforce_fullscreen_constraints(w, lg) ==
    LET todo == dev(lg, <<"TODO: Verify resizable & borderless functionality.">>)
    IN  IF todo.raised # NoException THEN Ran(w, todo.logger, todo.raised)
        ELSE IF ~w.fullscreen THEN Ran(w, todo.logger, NoException)
        ELSE
        LET w1 == IF w.resizable THEN [w EXCEPT !.resizable = FALSE] ELSE w
            l1 == IF w.resizable
                  THEN warn(todo.logger, <<"Window {self.uuid}: 'resizable' disabled due to fullscreen mode.">>)
                  ELSE Left(todo.logger, NoException)
        IN  IF l1.raised # NoException THEN Ran(w1, l1.logger, l1.raised)
            ELSE
            LET w2 == IF w1.borderless THEN [w1 EXCEPT !.borderless = FALSE] ELSE w1
                l2 == IF w1.borderless
                      THEN warn(l1.logger, <<"Window {self.uuid}: 'borderless' ignored due to fullscreen mode.">>)
                      ELSE Left(l1.logger, NoException)
            IN  IF l2.raised # NoException THEN Ran(w2, l2.logger, l2.raised)
                ELSE
                LET w3 == [w2 EXCEPT !.size = w2.display_size]
                    l3 == info(l2.logger, <<"Window {self.uuid}: Fullscreen, updated size from {self.size} to {self.display_size}.">>)
                IN  Ran(w3, l3.logger, l3.raised)

(* set_swap_interval: the verdict of validate_type, and what the call leaves *)
set_swap_interval(w, lg, swap_interval) ==
    LET verdict == validate_type("swap_interval", swap_interval, int)
    IN  IF verdict.kind # Accepted
        THEN [verdict |-> verdict, ran |-> Ran(w, lg, verdict.kind)]
        ELSE LET told == info(lg, <<"Window {self.uuid}: Updating glfw swap interval to {swap_interval}.">>)
             IN  IF told.raised # NoException
                 THEN [verdict |-> verdict, ran |-> Ran(w, told.logger, told.raised)]
                 ELSE [verdict |-> verdict,
                       ran |-> Ran([w EXCEPT !.swap_interval = swap_interval],
                                   told.logger, NoException)]

(* _init_display: glfw.init(), glfw.get_primary_monitor() and            *)
(* glfw.get_video_mode() succeed or fail as the machine has it.          *)
_init_display(lg, glfw_init, monitor, video_mode) ==
    IF ~glfw_init
    THEN error(lg, <<"GLFW can't be initialized.">>, "GraphicsInitError")
    ELSE IF ~monitor
    THEN error(lg, <<"GLFW can't find the primary monitor">>, "GraphicsInitError")
    ELSE IF ~video_mode
    THEN error(lg, <<"GLFW can't get video mode">>, "GraphicsInitError")
    ELSE Left(lg, NoException)

(* Inputs of the logger: each level in some spelling that normalises to  *)
(* its key, and two names that are not levels.                           *)
VerbosityInputs ==
    {<<"N", "O", "N", "E">>,
     <<"l", "o", "g", "_", "o", "n", "l", "y">>,
     <<"E", "r", "r", "o", "r", " ">>,
     <<"W", "A", "R", "\n", "N", "I", "N", "G">>,
     <<"\t", "c", "r", "u", "c", "i", "a", "l">>,
     <<"I", "N", "F", "O", "\r", "\n">>,
     <<" ", "d", "e", "v", "\n">>,
     <<"L", "O", "G", " ", "O", "N", "L", "Y">>,
     <<"V", "E", "R", "B", "O", "S", "E">>}

Messages == {<<"m">>}
Exceptions == {NoException, "WindowInitError"}

(* A logger after MessageLogger.init(level) in a fresh process *)
Loaded == {init(Unloaded(FALSE), Spelling[k]).logger : k \in DOMAIN Spelling}

(* Windows as __init__ has them before _enforce_fullscreen_constraints *)
WindowSizes == {<<1, 1>>, <<2, 1>>}
DisplaySizes == {<<2, 1>>, <<2, 2>>}
Windows ==
    {WindowOf(f, r, b, s, d) :
        f \in BOOLEAN, r \in BOOLEAN, b \in BOOLEAN, s \in WindowSizes, d \in DisplaySizes}
NoWindow == WindowOf(FALSE, FALSE, FALSE, <<>>, <<>>)

(* ------------------------------------------------------------------ *)
(* The state machine: a call is made (Init) and runs to its outcome.    *)
(* ------------------------------------------------------------------ *)
Init ==
    /\ pc = "call"
    /\ calls = 0
    /\ result = NoResult
    /\ \/ /\ fn = "validate_type" /\ args \in {<<r>> : r \in Requests}
          /\ logger = Unloaded(FALSE) /\ window = NoWindow
       \/ /\ fn = "validate_types" /\ args \in Batches
          /\ logger = Unloaded(FALSE) /\ window = NoWindow
       \/ /\ fn = "validate_type(Union)" /\ args \in {<<r>> : r \in DeclaredRequests}
          /\ logger = Unloaded(FALSE) /\ window = NoWindow
       \/ /\ fn = "set_swap_interval" /\ args \in {<<v>> : v \in Scalars}
          /\ logger \in Loaded
          /\ window = WindowOf(FALSE, TRUE, FALSE, <<1, 1>>, <<2, 2>>)
       \/ /\ fn = "_enforce_fullscreen_constraints" /\ args = <<>>
          /\ logger \in Loaded /\ window \in Windows

Validate_type ==
    /\ pc = "call"
    /\ fn = "validate_type"
    /\ result' = validate_type(args[1].name, args[1].var, args[1].expected_type)
    /\ pc' = "return"
    /\ calls' = calls + 1
    /\ UNCHANGED <<fn, args, logger, window>>

Validate_types ==
    /\ pc = "call"
    /\ fn = "validate_types"
    /\ result' = validate_types(args)
    /\ pc' = "return"
    /\ calls' = calls + 1
    /\ UNCHANGED <<fn, args, logger, window>>

(* validate_type(name, var, Union[...]) with the union written at the call *)
Validate_union ==
    /\ pc = "call"
    /\ fn = "validate_type(Union)"
    /\ result' = validate_type(args[1].name, args[1].var, typing_Union(args[1].declared))
    /\ pc' = "return"
    /\ calls' = calls + 1
    /\ UNCHANGED <<fn, args, logger, window>>

(* What the caller sees of a call that left r *)
Outcome(raised) ==
    IF raised = NoException THEN Return(<<>>) ELSE Raise(raised, NoMsg, <<>>)

(* The terminal output belongs to one call *)
Fresh(lg) == [lg EXCEPT !.stdout = <<>>]

Set_swap_interval ==
    /\ pc = "call"
    /\ fn = "set_swap_interval"
    /\ LET done == set_swap_interval(window, Fresh(logger), args[1])
       IN  /\ result' = IF done.verdict.kind # Accepted
                        THEN done.verdict
                        ELSE Outcome(done.ran.raised)
           /\ window' = done.ran.window
           /\ logger' = done.ran.logger
    /\ pc' = "return"
    /\ calls' = calls + 1
    /\ UNCHANGED <<fn, args>>

Enforce_fullscreen_constraints ==
    /\ pc = "call"
    /\ fn = "_enforce_fullscreen_constraints"
    /\ LET done == _enforce_fullscreen_constraints(window, Fresh(logger))
       IN  /\ result' = Outcome(done.raised)
           /\ window' = done.window
           /\ logger' = done.logger
    /\ pc' = "return"
    /\ calls' = calls + 1
    /\ UNCHANGED <<fn, args>>

Next ==
    \/ Validate_type
    \/ Validate_types
    \/ Validate_union
    \/ Set_swap_interval
    \/ Enforce_fullscreen_constraints

Spec == Init /\ [][Next]_vars

(* ------------------------------------------------------------------ *)
(* The logger's state machine: a process makes up to MaxCalls calls on  *)
(* the MessageLogger class, in any order.                               *)
(* ------------------------------------------------------------------ *)
LoggerInit ==
    /\ pc = "idle"
    /\ fn = ""
    /\ args = <<>>
    /\ result = NoResult
    /\ calls = 0
    /\ logger \in {Unloaded(folder) : folder \in BOOLEAN}
    /\ window = NoWindow

Call(f, a, left) ==
    /\ calls < MaxCalls
    /\ pc' = "return"
    /\ fn' = f
    /\ args' = a
    /\ result' = Outcome(left.raised)
    /\ logger' = left.logger
    /\ calls' = calls + 1
    /\ UNCHANGED window

Logger_init ==
    \E verbosity \in VerbosityInputs :
        Call("init", <<verbosity>>, init(Fresh(logger), verbosity))

Logger_set_verbose_type ==
    \E verbosity \in VerbosityInputs :
        Call("set_verbose_type", <<verbosity>>, set_verbose_type(Fresh(logger), verbosity))

Logger_error ==
    \E message \in Messages, exception \in Exceptions :
        Call("error", <<message, exception>>, error(Fresh(logger), message, exception))

Logger_warn ==
    \E message \in Messages : Call("warn", <<message>>, warn(Fresh(logger), message))

Logger_crucial ==
    \E message \in Messages : Call("crucial", <<message>>, crucial(Fresh(logger), message))

Logger_info ==
    \E message \in Messages : Call("info", <<message>>, info(Fresh(logger), message))

Logger_dev ==
    \E message \in Messages : Call("dev", <<message>>, dev(Fresh(logger), message))

Window_init_display ==
    \E glfw_init \in BOOLEAN, monitor \in BOOLEAN, video_mode \in BOOLEAN :
        Call("_init_display", <<glfw_init, monitor, video_mode>>,
             _init_display(Fresh(logger), glfw_init, monitor, video_mode))

LoggerNext ==
    \/ Logger_init
    \/ Logger_set_verbose_type
    \/ Logger_error
    \/ Logger_warn
    \/ Logger_crucial
    \/ Logger_info
    \/ Logger_dev
    \/ Window_init_display

LoggerSpec == LoggerInit /\ [][LoggerNext]_vars

(* ------------------------------------------------------------------ *)
(* Properties                                                           *)
(* ------------------------------------------------------------------ *)
Returned(f) == pc = "return" /\ fn = f

(* The arguments of the validate_type call in progress *)
a_name == args[1].name
a_var == args[1].var
a_type == args[1].expected_type

Rejected(r) == r.kind \in {TypeMismatch, ValueViolation}

TraceOps(r) == {r.trace[k].op : k \in DOMAIN r.trace}

PlainTypes == {Leaf(c) : c \in Classes}

IsUnion(t) == t.id = "Union"

(* The alternatives of a union that are not the null alternative, in order *)
NotNone(t) == t # NoneType
NonNull(t) == SelectSeq(t.args, NotNone)

(* What each non-null alternative of the union makes of the value, on its own *)
Branches(n, v, t) == [k \in DOMAIN NonNull(t) |-> validate_type(n, v, NonNull(t)[k])]

IsViolation(r) == r.kind = ValueViolation
MsgsOf(rs) == [k \in DOMAIN rs |-> rs[k].msg]
Violations(n, v, t) == MsgsOf(SelectSeq(Branches(n, v, t), IsViolation))

(* C1: a plain descriptor T accepts exactly the instances of T and rejects *)
(* everything else with TypeMismatch, never with ValueViolation; int with  *)
(* a negative integer included.                                            *)
C1_PlainIsNominal ==
    (Returned("validate_type") /\ a_type \in PlainTypes) =>
        /\ result.kind = Accepted <=> isinstance(a_var, a_type.id)
        /\ result.kind # Accepted => result.kind = TypeMismatch
        /\ result.kind # ValueViolation

(* C2: when a union is given a value that is not None and no non-null      *)
(* alternative accepts, the outcome is ValueViolation iff some alternative *)
(* was rejected with ValueViolation, its message then lists every such     *)
(* alternative's message once, in the order of the alternatives; otherwise *)
(* the outcome is one TypeMismatch.                                        *)
C2_UnionAggregation ==
    (/\ Returned("validate_type") /\ IsUnion(a_type) /\ a_var # None
     /\ \A k \in DOMAIN NonNull(a_type) :
           Branches(a_name, a_var, a_type)[k].kind # Accepted) =>
        LET viol == Violations(a_name, a_var, a_type)
        IN  /\ result.kind = ValueViolation <=> viol # <<>>
            /\ viol # <<>> => result.msg.failures = viol
            /\ viol = <<>> => result.kind = TypeMismatch /\ result.msg.failures = <<>>

C2_Witness ==
    /\ Returned("validate_type")
    /\ a_type = Union(<<PositiveInt, NoneType>>)
    /\ a_var = IntVal(-1)
    /\ result.kind = ValueViolation
    /\ Len(result.msg.failures) = 1

(* C3: a union given None accepts if it lists NoneType and otherwise       *)
(* rejects with TypeMismatch, and in both cases no alternative is tried.   *)
C3_UnionAbsent ==
    (Returned("validate_type") /\ IsUnion(a_type) /\ a_var = None) =>
        /\ result.kind =
              IF \E k \in DOMAIN a_type.args : a_type.args[k] = NoneType
              THEN Accepted ELSE TypeMismatch
        /\ "validate_type" \notin TraceOps(result)
        /\ TraceOps(result) \cap {"isinstance", "len", "isinstance_Real", "range"} = {}

C3_Witness ==
    /\ Returned("validate_type") /\ IsUnion(a_type) /\ a_var = None
    /\ \A k \in DOMAIN a_type.args : a_type.args[k] # NoneType
    /\ result.kind = TypeMismatch

(* The least index (from 1) of a request of the batch that validate_type   *)
(* rejects, or 0 when it accepts them all                                  *)
FirstRejected(batch) ==
    LET bad == {k \in DOMAIN batch :
                   Rejected(validate_type(batch[k].name, batch[k].var,
                                          batch[k].expected_type))}
    IN  IF bad = {} THEN 0 ELSE Min(bad)

(* C4: validate_types hands the requests to validate_type in list order,   *)
(* stops at the first one rejected and raises exactly its error; nothing   *)
(* after it is evaluated; it succeeds iff every request is accepted.       *)
C4_BatchFailFast ==
    Returned("validate_types") =>
        LET f == FirstRejected(args)
            evaluated == [k \in DOMAIN result.trace |-> result.trace[k].idx + 1]
        IN  /\ result.kind = Accepted <=> f = 0
            /\ f = 0 => evaluated = [k \in 1..Len(args) |-> k]
            /\ f # 0 =>
                  LET r == validate_type(args[f].name, args[f].var,
                                         args[f].expected_type)
                  IN  /\ result.kind = r.kind
                      /\ result.msg = r.msg
                      /\ evaluated = [k \in 1..f |-> k]

C4_Witness ==
    /\ Returned("validate_types")
    /\ Len(args) = 3
    /\ FirstRejected(args) = 2
    /\ Rejected(validate_type(args[3].name, args[3].var, args[3].expected_type))
    /\ result.kind = ValueViolation
    /\ Len(result.trace) = 2

Malformed(t) == ~IsUnion(t) /\ t \notin PlainTypes \cup {PositiveInt, Coordinate, Size, ColorRGBA}

(* A rejection the validator words itself, as opposed to an error of the   *)
(* interpreter that escapes from it                                        *)
OrdinaryFailure(r) == Rejected(r) /\ r.msg.name # ""

(* C6: a descriptor of none of the three variants is never accepted, and   *)
(* when a union reaches such an alternative its failure is not taken for a *)
(* TypeMismatch of that branch: the union then neither accepts nor rejects *)
(* with an ordinary TypeMismatch or ValueViolation.                        *)
C6_MalformedFailsLoudly ==
    Returned("validate_type") =>
        /\ Malformed(a_type) =>
              result.kind # Accepted /\ ~OrdinaryFailure(result)
        /\ (/\ IsUnion(a_type) /\ a_var # None
            /\ \E k \in DOMAIN NonNull(a_type) :
                  /\ Malformed(NonNull(a_type)[k])
                  /\ \A j \in 1..(k - 1) :
                        Branches(a_name, a_var, a_type)[j].kind # Accepted) =>
              result.kind # Accepted /\ ~OrdinaryFailure(result)

(* Shape of a value: a sequence that is no string, of n items, all Real *)
Structural(v, n) ==
    /\ isinstance(v, "Sequence") /\ ~isinstance(v, "AnyString")
    /\ len(v) = n
    /\ \A i \in 0..(n - 1) : isinstance(Item(v, i), "Real")

Arity(t) == IF t = ColorRGBA THEN ColorLen ELSE SizeLen

(* Positions (from 1) of the checks named op in the trace of r *)
Positions(r, op) == {k \in DOMAIN r.trace : r.trace[k].op = op}

(* C7: Size and ColorRGBA finish every shape check before the first range  *)
(* check: a value with any defect of shape is rejected with TypeMismatch   *)
(* without its range being looked at, also when an element before the     *)
(* defect is out of range.                                                 *)
C7_StructuralBeforeRange ==
    (Returned("validate_type") /\ a_type \in {Size, ColorRGBA}) =>
        /\ ~Structural(a_var, Arity(a_type)) =>
              result.kind = TypeMismatch /\ Positions(result, "range") = {}
        /\ Positions(result, "range") # {} =>
              /\ Cardinality(Positions(result, "isinstance_Real")) = Arity(a_type)
              /\ \A a \in Positions(result, "isinstance") \cup Positions(result, "len")
                           \cup Positions(result, "isinstance_Real") :
                    \A b \in Positions(result, "range") : a < b

C7_Witness ==
    /\ Returned("validate_type")
    /\ \/ a_type = Size /\ a_var = TupleVal(<<IntVal(-1), StrVal(1)>>)
       \/ a_type = ColorRGBA
          /\ a_var = TupleVal(<<IntVal(2), IntVal(0), IntVal(0), StrVal(1)>>)
    /\ result.kind = TypeMismatch

(* The order of the reals: NaN is neither below nor at or above a number *)
AtLeast(e, k) == ~e.nan /\ e.n >= k
AtMost(e, k) == ~e.nan /\ e.n <= k

(* C8: Size accepts a value of the right shape iff both elements are >= 0  *)
(* (0 included) and otherwise rejects it with ValueViolation, naming the   *)
(* least index whose element is negative and showing that element.         *)
C8_SizeRange ==
    (Returned("validate_type") /\ a_type = Size /\ Structural(a_var, SizeLen)) =>
        LET neg == {i \in 0..(SizeLen - 1) : ~AtLeast(Item(a_var, i), 0)}
        IN  /\ result.kind = Accepted <=> neg = {}
            /\ neg # {} =>
                  /\ result.kind = ValueViolation
                  /\ result.msg.index = Min(neg)
                  /\ Item(result.msg.got_value, result.msg.index) = Item(a_var, Min(neg))

(* C9: ColorRGBA accepts a value of the right shape iff every element e    *)
(* has 0 <= e <= 1 (0 and 1 included) and otherwise rejects it with        *)
(* ValueViolation, naming the least index out of range and its element.    *)
C9_ColorRange ==
    (Returned("validate_type") /\ a_type = ColorRGBA
                               /\ Structural(a_var, ColorLen)) =>
        LET out == {i \in 0..(ColorLen - 1) :
                       ~(AtLeast(Item(a_var, i), 0) /\ AtMost(Item(a_var, i), 1))}
        IN  /\ result.kind = Accepted <=> out = {}
            /\ out # {} =>
                  /\ result.kind = ValueViolation
                  /\ result.msg.index = Min(out)
                  /\ result.msg.got_value = Item(a_var, Min(out))

(* No element of the value is NaN *)
NoNaN(v) == \A k \in DOMAIN v.elems : ~v.elems[k].nan

(* C8, for values that hold no NaN: Size accepts iff both elements are    *)
(* >= 0 and otherwise names the least negative index and its element.     *)
C8_SizeRange_Numbers ==
    (Returned("validate_type") /\ NoNaN(a_var)) => C8_SizeRange

(* C9, for values that hold no NaN: ColorRGBA accepts iff every element   *)
(* is in [0, 1] and otherwise names the least index out of range.         *)
C9_ColorRange_Numbers ==
    (Returned("validate_type") /\ NoNaN(a_var)) => C9_ColorRange

(* C10: Coordinate accepts exactly the sequences that are no str, bytes or *)
(* bytearray, hold two items and hold only real numbers, whatever their    *)
(* sign or size; everything else is a TypeMismatch, nothing a              *)
(* ValueViolation.                                                         *)
C10_Coordinate ==
    (Returned("validate_type") /\ a_type = Coordinate) =>
        result.kind = IF Structural(a_var, CoordinateLen) THEN Accepted ELSE TypeMismatch

C10_Witness ==
    /\ Returned("validate_type") /\ a_type = Coordinate
    /\ a_var = StrVal(2)
    /\ result.kind = TypeMismatch

(* The alternatives a union call handed to validate_type, in the order tried *)
IsBranchCall(e) == e.op = "validate_type"
Tried(r) == [k \in DOMAIN SelectSeq(r.trace, IsBranchCall) |->
                SelectSeq(r.trace, IsBranchCall)[k].arg]

(* C11: a union given a value that is not None tries its non-null          *)
(* alternatives in the order listed and accepts at the first one that      *)
(* accepts: none after it is tried, and errors recorded before it do not   *)
(* change the outcome.                                                     *)
C11_UnionFirstAccept ==
    (/\ Returned("validate_type") /\ IsUnion(a_type) /\ a_var # None
     /\ \E k \in DOMAIN NonNull(a_type) :
           Branches(a_name, a_var, a_type)[k].kind = Accepted) =>
        LET first == Min({k \in DOMAIN NonNull(a_type) :
                             Branches(a_name, a_var, a_type)[k].kind = Accepted})
        IN  /\ result.kind = Accepted
            /\ result.msg = NoMsg
            /\ Tried(result) = [k \in 1..first |-> NonNull(a_type)[k].id]

C11_Witness ==
    /\ Returned("validate_type")
    /\ a_type = Union(<<Size, tuple>>)
    /\ a_var = TupleVal(<<IntVal(-1), IntVal(0)>>)
    /\ Branches(a_name, a_var, a_type)[1].kind = ValueViolation
    /\ result.kind = Accepted

(* The descriptors with a validator of their own *)
SemanticTypes == {PositiveInt, Coordinate, Size, ColorRGBA}

(* Messages whose fixed text says what was expected, with no placeholder *)
StatedInText ==
    {"Invalid value for {name}. PositiveInt numbers must be non-negative.",
     "Invalid length for Coordinate '{name}'. Coordinate must be two numbers.",
     "Invalid length for Size '{name}'. Size must be two numbers.",
     "Invalid length for the Color '{name}'. Color must be contain four channels: Red, Green, Blue, Alpha.",
     "Invalid value for Size[{i}] '{name}'. All size numbers must be non-negative, got {var}.",
     "Invalid value for the Color[{i}] '{name}'. Color numbers must be between 0 and 1 inclusive, but the value was {var[i]}."}

HasName(msg) == msg.name = a_name /\ msg.name # ""
HasExpected(msg) == msg.expected # <<>> \/ msg.fmt \in StatedInText
HasActual(msg) == msg.got_type # "" \/ msg.got_value # NoValue

(* C12: every rejection by the validator of PositiveInt, Coordinate, Size  *)
(* or ColorRGBA carries a message with the field name, the expected shape  *)
(* or range, and the actual value or its type.                             *)
C12_MessageComplete ==
    (Returned("validate_type") /\ a_type \in SemanticTypes /\ Rejected(result)) =>
        /\ HasName(result.msg)
        /\ HasExpected(result.msg)
        /\ HasActual(result.msg)

(* The part of C12 the code keeps: the field name and what was expected *)
C12_NameAndExpected ==
    (Returned("validate_type") /\ a_type \in SemanticTypes /\ Rejected(result)) =>
        HasName(result.msg) /\ HasExpected(result.msg)

(* C14: Window.set_swap_interval accepts every integer, negative ones     *)
(* included, and hands it to glfw; only a value that is no integer is     *)
(* rejected.                                                              *)
C14_SwapIntervalAnyInteger ==
    Returned("set_swap_interval") =>
        IF isinstance(args[1], "int")
        THEN result.kind = Accepted /\ window.swap_interval = args[1]
        ELSE Rejected(result) /\ window.swap_interval = "unset"

(* The part of C14 the code keeps: integers from 0 up are forwarded, and  *)
(* what is no integer is rejected with a type error.                      *)
C14_SwapIntervalNonNegative ==
    Returned("set_swap_interval") =>
        /\ (isinstance(args[1], "int") /\ args[1].n >= 0) =>
               result.kind = Accepted /\ window.swap_interval = args[1]
        /\ ~isinstance(args[1], "int") =>
               result.kind = TypeMismatch /\ window.swap_interval = "unset"

(* ------------------------------------------------------------------ *)
(* Properties of the logger (LoggerSpec)                                *)
(* ------------------------------------------------------------------ *)
(* The logging methods and the message type each one logs *)
LogCalls == {"error", "warn", "crucial", "info", "dev"}
TypeOf(f) ==
    CASE f = "error" -> "ERROR"
      [] f = "warn" -> "WARNING"
      [] f = "crucial" -> "CRUCIAL"
      [] f = "info" -> "INFO"
      [] f = "dev" -> "DEV"

(* Some init has succeeded: the log file starts with a setup header *)
Initialised(lg) ==
    /\ lg.verbosity_priority # Unset
    /\ lg.file.exists
    /\ Len(lg.file.lines) >= 1
    /\ IsHeader(lg.file.lines[1])

(* This step is a call of method f *)
Calls(f) == calls' = calls + 1 /\ fn' = f

(* What this step's call added to the log file and printed *)
Wrote(line) == logger'.file.lines = Append(logger.file.lines, line)
WroteNothing == logger'.file = logger.file
Printed(line) == logger'.stdout = <<line>>
PrintedNothing == logger'.stdout = <<>>

(* C15: once the logger is initialised, whatever set_verbose_type calls   *)
(* came before, a message of type T logged at level L is: at NONE neither *)
(* written nor printed; at every other level written to the log file      *)
(* whatever T is; printed exactly when priority(L) >= priority(T).        *)
C15_Step ==
    \A f \in LogCalls :
        (Calls(f) /\ Initialised(logger)) =>
            LET L == logger.verbosity_priority
                T == TypeOf(f)
                line == Line(T, args'[1])
            IN  /\ logger'.verbosity_priority = L
                /\ L = NONE => WroteNothing /\ PrintedNothing
                /\ L # NONE => Wrote(line)
                /\ L >= _VERBOSITY_PRIORITYS[T] => Printed(line)
                /\ L < _VERBOSITY_PRIORITYS[T] => PrintedNothing
                /\ L = LOG_ONLY => PrintedNothing
                /\ L = WARNING => (Printed(line) <=> T \in {"WARNING", "ERROR"})
C15_LevelFilter == [][C15_Step]_vars

(* An info message at level WARNING, set by set_verbose_type: in the file, *)
(* not on the terminal.                                                  *)
C15_Witness ==
    /\ Returned("info")
    /\ Initialised(logger)
    /\ logger.verbosity_priority = WARNING
    /\ logger.file.lines[Len(logger.file.lines)] = Line("INFO", args[1])
    /\ IsNotice(logger.file.lines[Len(logger.file.lines) - 1].message)
    /\ logger.stdout = <<>>

(* The calls that end in MessageLogger.error with an exception to raise:  *)
(* error itself, and _init_display when glfw fails.                       *)
GivenException ==
    CASE fn = "error" -> args[2]
      [] fn = "_init_display" ->
            IF args[1] /\ args[2] /\ args[3] THEN NoException ELSE "GraphicsInitError"
      [] OTHER -> NoException

(* C16 as stated: error(message, exception) with an exception ends by     *)
(* raising exactly that exception, in every state of the logger.          *)
C16_AlwaysRaisesGiven ==
    (pc = "return" /\ GivenException # NoException) => result.kind = GivenException

(* C16, amended: once an init has succeeded, error(message, exception)    *)
(* processes the message as the level says (file, terminal) and then      *)
(* raises exactly the given exception, at every level, NONE included;     *)
(* while the level is unset it raises RuntimeError and logs nothing.      *)
C16_Step ==
    \A f \in {"error", "_init_display"} :
        (Calls(f) /\ GivenException' # NoException) =>
            LET L == logger.verbosity_priority
                line == logger'.file.lines[Len(logger'.file.lines)]
            IN  /\ Initialised(logger) =>
                    /\ result'.kind = GivenException'
                    /\ L = NONE => WroteNothing /\ PrintedNothing
                    /\ L # NONE =>
                          /\ Len(logger'.file.lines) = Len(logger.file.lines) + 1
                          /\ line.prefix = "ERROR"
                          /\ logger'.logs = Append(logger.logs, line.message)
                    /\ L >= ERROR => Printed(line)
                /\ L = Unset =>
                    /\ result'.kind = "RuntimeError"
                    /\ logger' = Fresh(logger)
C16_RaisesGivenOnceInitialised == [][C16_Step]_vars

C16_Witness ==
    /\ Returned("error")
    /\ Initialised(logger)
    /\ logger.verbosity_priority = NONE
    /\ args[2] = "WindowInitError"
    /\ result.kind = "WindowInitError"
    /\ logger.logs = <<>>

(* The inputs that name no level, however trimmed and uppercased *)
NotALevel ==
    {<<"L", "O", "G", " ", "O", "N", "L", "Y">>,
     <<"V", "E", "R", "B", "O", "S", "E">>}

(* C17: set_verbose_type and init raise ValueError for a verbosity that   *)
(* is none of the seven names after trimming and uppercasing, and then    *)
(* leave the level, the initialised status, the recorded messages and the *)
(* log file as they were, with no change notice logged or printed.        *)
C17_Step ==
    \A f \in {"init", "set_verbose_type"} :
        Calls(f) =>
            /\ result'.kind = "ValueError" <=> args'[1] \in NotALevel
            /\ result'.kind = "ValueError" =>
                  /\ logger'.verbosity_priority = logger.verbosity_priority
                  /\ check_init_completed(logger') = check_init_completed(logger)
                  /\ logger'.logs = logger.logs
                  /\ logger'.file = logger.file
                  /\ logger'.folder = logger.folder
                  /\ logger'.stdout = <<>>
C18_Step ==
    (pc = "call" /\ fn = "_enforce_fullscreen_constraints" /\ pc' = "return") =>
        /\ result'.kind = Accepted
        /\ window'.fullscreen = window.fullscreen
        /\ window'.display_size = window.display_size
        /\ window.fullscreen =>
              /\ window'.resizable = FALSE
              /\ window'.borderless = FALSE
              /\ window'.size = window.display_size
        /\ ~window.fullscreen =>
              /\ window'.resizable = window.resizable
              /\ window'.borderless = window.borderless
              /\ window'.size = window.size
C18_FullscreenConstraints == [][C18_Step]_vars

(* A fullscreen window that was resizable and borderless, after the call: *)
(* both warnings and the size notice were logged.                         *)
C18_Witness ==
    /\ Returned("_enforce_fullscreen_constraints")
    /\ window.fullscreen
    /\ ~window.resizable /\ ~window.borderless
    /\ window.size = window.display_size
    /\ Len(logger.logs) = 4

(* ------------------------------------------------------------------ *)
(* Properties of unions written at the call (Spec)                      *)
(* ------------------------------------------------------------------ *)
Orders(d) == {p \in [DOMAIN d -> {d[i] : i \in DOMAIN d}] : Injective(p)}
d_name == args[1].name
d_var == args[1].var
declared == args[1].declared

(* Some alternative other than None accepts the value when asked alone *)
AcceptedAlone(n, v, d) ==
    \E i \in DOMAIN d : d[i] # NoneType /\ validate_type(n, v, d[i]).kind = Accepted
Nullable(d) == \E i \in DOMAIN d : d[i] = NoneType

(* C19: the kind of verdict of a union does not depend on the order the   *)
(* alternatives are written in: every order of the same alternatives      *)
(* gives the same kind, and the value is accepted exactly when it is None *)
(* and the union lists None, or is not None and some other alternative    *)
(* accepts it on its own.                                                 *)
C19_OrderIndependent ==
    Returned("validate_type(Union)") =>
        /\ \A p \in Orders(declared) :
               validate_type(d_name, d_var, typing_Union(p)).kind = result.kind
        /\ result.kind = Accepted <=>
               \/ d_var = None /\ Nullable(declared)
               \/ d_var # None /\ AcceptedAlone(d_name, d_var, declared)

(* The part of C19 the code keeps: unions that do not list both           *)
(* Coordinate and Size.                                                   *)
C19_OrderIndependent_Distinct ==
    (Returned("validate_type(Union)")
     /\ ~(\E i, j \in DOMAIN declared : declared[i] = Coordinate /\ declared[j] = Size)) =>
        /\ \A p \in Orders(declared) :
               validate_type(d_name, d_var, typing_Union(p)).kind = result.kind
        /\ result.kind = Accepted <=>
               \/ d_var = None /\ Nullable(declared)
               \/ d_var # None /\ AcceptedAlone(d_name, d_var, declared)

(* ------------------------------------------------------------------ *)
(* The in-memory list and the log file (LoggerSpec)                     *)
(* ------------------------------------------------------------------ *)
(* The message entries of the log file: its lines other than the header *)
Entries(file) == SelectSeq(file.lines, IsEntry)

(* A successful init leaves an empty list and a file of the header alone *)
C20_InitResets ==
    (Returned("init") /\ result.kind = Accepted) =>
        /\ logger.logs = <<>>
        /\ logger.file.exists
        /\ logger.file.lines = <<Header(KeyAt(logger.verbosity_priority))>>

(* C20: every successful init, first or repeated, leaves an empty list   *)
(* and a log file holding the setup header alone (the change notice of   *)
(* a re-init does not survive); so after any sequence of init,           *)
(* set_verbose_type and logging calls the log file has as many message   *)
(* entries as the in-memory list.                                        *)
C20_ListMatchesFile ==
    /\ C20_InitResets
    /\ Len(Entries(logger.file)) = Len(logger.logs)

(* The part of C20 the code keeps besides C20_InitResets: equal counts,  *)
(* and equal messages, once an init has succeeded.                       *)
C20_ListMatchesFile_AfterInit ==
    Initialised(logger) =>
        /\ Len(Entries(logger.file)) = Len(logger.logs)
        /\ \A k \in DOMAIN logger.logs : Entries(logger.file)[k].message = logger.logs[k]

(* A re-init at a level that logs, after a message was logged *)
C20_ReinitReached ==
    /\ Returned("init") /\ result.kind = Accepted
    /\ calls = 3
    /\ logger.stdout # <<>>
    /\ logger.logs = <<>>

====
